---- MODULE Spec2Model ----
(***************************************************************************)
(* Model of backend/app.py: the /extract_features handler and the feature  *)
(* pipeline behind it (normalisation, downmix, compute_basic_features,     *)
(* compute_mfcc, extract_praat_features).                                  *)
(*                                                                         *)
(* float32 samples are records [m, e] standing for m * 2^e with m odd (or  *)
(* zero), rounded to nearest-even on 24 bits as numpy does; e = MaxExp     *)
(* marks an infinity (m = +-1) or a NaN (m = 0).  Feature values computed  *)
(* in double precision from small integers are exact rationals [n, d].     *)
(* Results of scipy / numpy / Praat routines whose numerics are outside    *)
(* the repository are drawn from small sets, a raised exception included.  *)
(***************************************************************************)
EXTENDS Integers, Sequences, FiniteSets, TLC

VARIABLES pc, request, wav, samples, basic, num_coeffs, mfcc, praat,
          praat_features, response

vars == <<pc, request, wav, samples, basic, num_coeffs, mfcc, praat,
          praat_features, response>>

(* ------------------------------ bounds -------------------------------- *)

\* longest decoded signal, in frames
MaxLen == 2
\* longest signal handed to compute_mfcc on its own
MaxFftLen == 28
\* largest num_coeffs tried besides the handler's 13
MaxCoeffs == 4
\* most pulses a PointProcess holds
MaxPulses == 2

(* --------------------------- float32 values --------------------------- *)

Abs(x) == IF x < 0 THEN -x ELSE x

RECURSIVE Pow2(_)
Pow2(k) == IF k <= 0 THEN 1 ELSE 2 * Pow2(k - 1)

RECURSIVE BitLen(_)
BitLen(a) == IF a <= 0 THEN 0 ELSE 1 + BitLen(a \div 2)

\* IEEE binary32 (np.float32): 24 significant bits, values below 2^128, grid 2^-149
Mantissa == 24
MaxExp == 128
MinExp == -149

FZero == [m |-> 0, e |-> 0]
FInf(neg) == [m |-> IF neg THEN -1 ELSE 1, e |-> MaxExp]
FNaN == [m |-> 0, e |-> MaxExp]
IsInf(v) == v.e = MaxExp /\ v.m # 0
IsNaN(v) == v.e = MaxExp /\ v.m = 0
IsFinite(v) == v.e < MaxExp

RECURSIVE FNorm(_, _)
FNorm(m, e) ==
    IF m = 0 THEN FZero
    ELSE IF m % 2 = 0 THEN FNorm(m \div 2, e + 1)
    ELSE [m |-> m, e |-> e]

\* round a * 2^e (a >= 0, sticky: something nonzero lies below a's last bit)
RoundMag(a, e, sticky) ==
    LET len == BitLen(a)
        k == len - Mantissa
    IN IF k <= 0 THEN [a |-> a, e |-> e]
       ELSE LET q == a \div Pow2(k)
                r == a % Pow2(k)
                half == Pow2(k - 1)
                up == r > half \/ (r = half /\ (sticky \/ q % 2 = 1))
            IN [a |-> IF up THEN q + 1 ELSE q, e |-> e + k]

FRound(neg, a, e, sticky) ==
    LET r == RoundMag(a, e, sticky)
    IN IF r.a = 0 THEN FZero
       ELSE IF BitLen(r.a) + r.e > MaxExp THEN FInf(neg)
       ELSE FNorm(IF neg THEN -r.a ELSE r.a, r.e)

FromInt(x) == FRound(x < 0, Abs(x), 0, FALSE)

\* int32 given as hi * 65536 + lo, hi in -32768..32767, lo in 0..65535
FromInt32(hi, lo) ==
    LET neg == hi < 0
        H == IF ~neg THEN hi ELSE IF lo = 0 THEN -hi ELSE -hi - 1
        L == IF ~neg \/ lo = 0 THEN lo ELSE 65536 - lo
    IN IF H = 32768 THEN FNorm(-1, 31)
       ELSE FRound(neg, H * 65536 + L, 0, FALSE)

Order(v) == BitLen(Abs(v.m)) + v.e

\* |a| <= |b|
FAbsLe(a, b) ==
    IF IsNaN(a) \/ IsNaN(b) THEN FALSE
    ELSE IF a.m = 0 THEN TRUE
    ELSE IF b.m = 0 THEN FALSE
    ELSE IF IsInf(b) THEN TRUE
    ELSE IF IsInf(a) THEN FALSE
    ELSE IF Order(a) # Order(b) THEN Order(a) < Order(b)
    ELSE LET lo == IF a.e < b.e THEN a.e ELSE b.e
         IN Abs(a.m) * Pow2(a.e - lo) <= Abs(b.m) * Pow2(b.e - lo)

FOne == [m |-> 1, e |-> 0]

\* v / 2^k, rounded to the subnormal grid when it underflows
FScale(v, k) ==
    IF v.m = 0 \/ ~IsFinite(v) THEN v
    ELSE IF v.e - k >= MinExp THEN [m |-> v.m, e |-> v.e - k]
    ELSE LET s == MinExp - (v.e - k)
             a == Abs(v.m)
             q == IF s > 30 THEN 0 ELSE a \div Pow2(s)
             r == IF s > 30 THEN a ELSE a % Pow2(s)
             up == IF s > 30 THEN FALSE
                   ELSE r > Pow2(s - 1) \/ (r = Pow2(s - 1) /\ q % 2 = 1)
             n == IF up THEN q + 1 ELSE q
         IN FNorm(IF v.m < 0 THEN -n ELSE n, MinExp)

FAdd(a, b) ==
    IF IsNaN(a) \/ IsNaN(b) THEN FNaN
    ELSE IF IsInf(a) THEN (IF IsInf(b) /\ a.m # b.m THEN FNaN ELSE a)
    ELSE IF IsInf(b) THEN b
    ELSE IF a.m = 0 THEN b
    ELSE IF b.m = 0 THEN a
    ELSE LET big == IF Order(a) >= Order(b) THEN a ELSE b
             sml == IF Order(a) >= Order(b) THEN b ELSE a
             E == Order(big) - 27
             Bu == Abs(big.m) * Pow2(big.e - E)
             sh == sml.e - E
             sticky == sh < 0
             Su == IF sh >= 0 THEN Abs(sml.m) * Pow2(sh)
                   ELSE IF -sh > 30 THEN 0 ELSE Abs(sml.m) \div Pow2(-sh)
             same == (big.m < 0) = (sml.m < 0)
             T == IF same THEN Bu + Su
                  ELSE IF sticky THEN Bu - Su - 1 ELSE Bu - Su
         IN FRound(IF T < 0 THEN big.m > 0 ELSE big.m < 0, Abs(T), E, sticky)

FDiv(x, p) ==
    IF IsNaN(x) \/ IsNaN(p) THEN FNaN
    ELSE IF IsInf(p) THEN (IF IsInf(x) THEN FNaN ELSE FZero)
    ELSE IF IsInf(x) THEN FInf((x.m < 0) # (p.m < 0))
    ELSE IF x.m = 0 THEN FZero
    ELSE LET s == 30 - BitLen(Abs(x.m))
             N == Abs(x.m) * Pow2(s)
         IN FRound((x.m < 0) # (p.m < 0), N \div Abs(p.m), x.e - p.e - s,
                   N % Abs(p.m) # 0)

(* ------------------------- double-precision values -------------------- *)

RECURSIVE GCD(_, _)
GCD(a, b) == IF b = 0 THEN a ELSE GCD(b, a % b)

\* n / d in lowest terms, d > 0
Rat(n, d) ==
    LET g == GCD(Abs(n), Abs(d))
        s == IF d < 0 THEN -1 ELSE 1
    IN [n |-> s * (n \div g), d |-> s * (d \div g)]

R0 == [n |-> 0, d |-> 1]
RInt(k) == [n |-> k, d |-> 1]
RMul(a, b) == Rat(a.n * b.n, a.d * b.d)
RDiv(a, b) == Rat(a.n * b.d, a.d * b.n)
RLe(a, b) == a.n * b.d <= b.n * a.d
RLt(a, b) == a.n * b.d < b.n * a.d
\* Python's max(a, b) and min(a, b): the first argument wins a tie
PyMax(a, b) == IF RLt(a, b) THEN b ELSE a
PyMin(a, b) == IF RLt(b, a) THEN b ELSE a

\* a value Praat reports as undefined reaches Python as NaN
NaN == -1
\* "x is not None and x > 0": every comparison with NaN is false
Positive(x) == x # NaN /\ x > 0

RECURSIVE SumSeq(_)
SumSeq(s) == IF s = <<>> THEN 0 ELSE Head(s) + SumSeq(Tail(s))

RECURSIVE MaxSeq(_)
MaxSeq(s) ==
    IF Len(s) = 1 THEN s[1]
    ELSE LET r == MaxSeq(Tail(s)) IN IF s[1] >= r THEN s[1] ELSE r

RECURSIVE MinSeq(_)
MinSeq(s) ==
    IF Len(s) = 1 THEN s[1]
    ELSE LET r == MinSeq(Tail(s)) IN IF s[1] <= r THEN s[1] ELSE r

\* np.mean of a non-empty list of integers
Mean(s) == Rat(SumSeq(s), Len(s))

RECURSIVE SelectPositive(_)
SelectPositive(s) ==
    IF s = <<>> THEN <<>>
    ELSE IF Positive(Head(s)) THEN <<Head(s)>> \o SelectPositive(Tail(s))
    ELSE SelectPositive(Tail(s))

(* ------------------------------ constants ----------------------------- *)

PITCH_FLOOR_HZ == 75
PITCH_CEILING_HZ == 600
\* 0.01 s
TIME_STEP_S == Rat(1, 100)
MAX_FILE_SIZE == 10 * 1024 * 1024
ALLOWED_EXTENSIONS == {<<"w", "a", "v">>, <<"w", "a", "v", "e">>}

(* ------------------------------ allowed_file -------------------------- *)

\* str.lower() on the characters the file names below are made of
Lower(c) ==
    CASE c = "W" -> "w"
      [] c = "A" -> "a"
      [] c = "V" -> "v"
      [] c = "E" -> "e"
      [] OTHER -> c

LowerSeq(s) == [i \in 1..Len(s) |-> Lower(s[i])]

HasDot(filename) == \E i \in 1..Len(filename) : filename[i] = "."

\* filename.rsplit('.', 1)[1], for a name that holds a dot
AfterLastDot(filename) ==
    LET last == CHOOSE i \in 1..Len(filename) :
                    /\ filename[i] = "."
                    /\ \A j \in (i + 1)..Len(filename) : filename[j] # "."
    IN SubSeq(filename, last + 1, Len(filename))

\* mutant: the extension is compared without .lower()
allowed_file_case_sensitive(filename) ==
    HasDot(filename) /\ AfterLastDot(filename) \in ALLOWED_EXTENSIONS

allowed_file(filename) ==
    HasDot(filename) /\ LowerSeq(AfterLastDot(filename)) \in ALLOWED_EXTENSIONS

(* ------------------------------ requests ------------------------------ *)

Filenames ==
    { <<>>,
      <<"w", "a", "v">>,
      <<"a", ".", "m", "p", "3">>,
      <<"a", ".", "w", "a", "v", ".", "t", "x", "t">>,
      <<"a", ".", "w", "a", "v", "x">>,
      <<"a", ".">>,
      <<"a", ".", "w", "a", "v">>,
      <<"b", ".", "m", "p", "3", ".", "W", "A", "V", "E">> }

\* sizes of the uploaded stream in bytes
Sizes == {0, 46, MAX_FILE_SIZE, MAX_FILE_SIZE + 1}

NoRequest == [has_file |-> FALSE, filename |-> <<>>, size |-> 0]

Requests ==
    {NoRequest} \cup
    [has_file : {TRUE}, filename : Filenames, size : Sizes]

(* --------------------------- decoded WAV data ------------------------- *)

\* dtypes scipy.io.wavfile.read returns
Dtypes == {"uint8", "int16", "int32", "float32", "float64", "int64"}

FMax == [m |-> 16777215, e |-> 104]

\* raw sample values per dtype; an int32 is <<hi, lo>> for hi * 65536 + lo,
\* a float is the binary32 value it converts to
RawValues(dtype) ==
    CASE dtype = "uint8" -> {0, 128, 255}
      [] dtype = "int16" -> {-32768, -1, 0, 32767}
      [] dtype = "int32" -> {<<-32768, 0>>, <<-1, 65535>>, <<0, 0>>, <<32767, 65535>>}
      [] dtype = "float32" -> {FZero, [m |-> -1, e |-> 0], [m |-> 3, e |-> -1], FMax}
      [] dtype = "float64" -> {FZero, [m |-> 1, e |-> -2], [m |-> -5, e |-> -1], [m |-> 3, e |-> 0]}
      [] dtype = "int64" -> {-3, 0, 2}

\* one ordinary value per dtype, for the runs of the whole handler
CoreValues(dtype) ==
    CASE dtype = "uint8" -> {255}
      [] dtype = "int16" -> {-32768}
      [] dtype = "int32" -> {<<32767, 65535>>}
      [] dtype = "float32" -> {[m |-> 3, e |-> -1]}
      [] dtype = "float64" -> {[m |-> -5, e |-> -1]}
      [] dtype = "int64" -> {2}

ChannelCounts == {1, 2}

\* sample rates of the header, in Hz
Rates == {0, 100, 1000}

Tuples(S, n) == [1..n -> S]

NoWav == [dtype |-> "none", rate |-> 0, channels |-> 0, frames |-> <<>>]

\* what wavfile.read may return: frames[i] holds one raw value per channel
Wavs(rich, rates) ==
    UNION { UNION { UNION { UNION {
        { [dtype |-> t, rate |-> r, channels |-> c, frames |-> f] :
            f \in Tuples(Tuples(IF rich THEN RawValues(t) ELSE CoreValues(t), c), n) }
        : n \in 0..MaxLen } : c \in ChannelCounts } : r \in rates } : t \in Dtypes }

(* ------------------------ bit-depth normalisation --------------------- *)

\* samples.astype(np.float32)
AsFloat32(dtype, raw) ==
    CASE dtype \in {"uint8", "int16", "int64"} -> FromInt(raw)
      [] dtype = "int32" -> FromInt32(raw[1], raw[2])
      [] dtype \in {"float32", "float64"} -> raw

RECURSIVE Flatten(_)
Flatten(frames) ==
    IF frames = <<>> THEN <<>> ELSE Head(frames) \o Flatten(Tail(frames))

\* np.max(np.abs(samples)) of a non-empty array
RECURSIVE MaxAbs(_)
MaxAbs(s) ==
    IF Len(s) = 1 THEN s[1]
    ELSE LET r == MaxAbs(Tail(s)) IN IF FAbsLe(r, s[1]) THEN s[1] ELSE r

\* one sample of the three fixed-width branches and the float32 passthrough
NormalizeSample(dtype, raw) ==
    CASE dtype = "int16" -> FScale(AsFloat32(dtype, raw), 15)
      [] dtype = "int32" -> FScale(AsFloat32(dtype, raw), 31)
      [] dtype = "uint8" -> FScale(FAdd(AsFloat32(dtype, raw), FromInt(-128)), 7)
      [] dtype = "float32" -> raw

\* the else branch: rescale by the peak when it exceeds 1.0
RescaleByPeak(floats, v) ==
    LET peak == MaxAbs(floats)
    IN IF ~FAbsLe(peak, FOne) THEN FDiv(v, peak) ELSE v

FixedDtypes == {"int16", "int32", "uint8", "float32"}

\* np.max of an empty array raises ValueError
NormalizeRaises(w) == w.dtype \notin FixedDtypes /\ w.frames = <<>>

NormalizeFrames(w) ==
    IF w.dtype \in FixedDtypes
    THEN [i \in 1..Len(w.frames) |->
            [c \in 1..w.channels |-> NormalizeSample(w.dtype, w.frames[i][c])]]
    ELSE LET fl == [i \in 1..Len(w.frames) |->
                      [c \in 1..w.channels |-> AsFloat32(w.dtype, w.frames[i][c])]]
         IN [i \in 1..Len(fl) |->
               [c \in 1..w.channels |-> RescaleByPeak(Flatten(fl), fl[i][c])]]

\* a mono file decodes to a 1-D array, a multi-channel one to shape (N, channels)
Shape(w, frames) ==
    IF w.channels = 1
    THEN [ndim |-> 1, data |-> [i \in 1..Len(frames) |-> frames[i][1]]]
    ELSE [ndim |-> 2, data |-> frames]

NoSamples == [ndim |-> 0, data |-> <<>>]

\* samples.mean(axis=1) of one float32 row: the sum in float32, then / n
RECURSIVE RowSum(_)
RowSum(row) ==
    IF Len(row) = 1 THEN row[1]
    ELSE FAdd(RowSum(SubSeq(row, 1, Len(row) - 1)), row[Len(row)])

RowMean(row) ==
    IF Len(row) = 2 THEN FScale(RowSum(row), 1) ELSE FDiv(RowSum(row), FromInt(Len(row)))

MeanAxis1(data) == [i \in 1..Len(data) |-> RowMean(data[i])]

(* ------------------------ compute_basic_features ---------------------- *)

SignBit(v) == v.m < 0

\* np.sum(np.abs(np.diff(np.signbit(x))))
ZeroCrossings(x) ==
    Cardinality({i \in 1..(Len(x) - 1) : SignBit(x[i]) # SignBit(x[i + 1])})

AllZero(x) == \A i \in 1..Len(x) : x[i] = FZero

\* sqrt(mean(x^2)) is kept as a term of its argument; it is 0.0 exactly when
\* every sample is zero
Rms(x) ==
    IF Len(x) > 0
    THEN (IF AllZero(x) THEN R0 ELSE [fn |-> "sqrt_mean_square", x |-> x])
    ELSE R0

Zcr(x) == IF Len(x) > 1 THEN Rat(ZeroCrossings(x), Len(x) - 1) ELSE R0

EmptyBasic == [rms |-> R0, zcr |-> R0, spectralCentroid |-> R0, spectralFlatness |-> R0]

\* signal.periodogram divides by fs; otherwise it returns a spectrum or fails
\* for a reason of its own
PeriodogramOutcomes(x, sample_rate) ==
    IF sample_rate = 0 THEN {"raise"} ELSE {"psd", "raise"}

\* centroid and flatness are terms of the floored spectrum
BasicFeatures(x, sample_rate) ==
    IF Len(x) = 0 THEN EmptyBasic
    ELSE [rms |-> Rms(x),
          zcr |-> Zcr(x),
          spectralCentroid |-> [fn |-> "centroid", x |-> x, fs |-> sample_rate],
          spectralFlatness |-> [fn |-> "flatness", x |-> x, fs |-> sample_rate]]

\* mutant: the early return for an empty signal is missing
CallsPeriodogramAlways(x) == TRUE

\* whether compute_basic_features reaches signal.periodogram
CallsPeriodogram(x) == Len(x) # 0

(* ------------------------------ compute_mfcc -------------------------- *)

\* np.abs(fft[:len(fft)//2]) for a signal of n samples: one of a few spectra of
\* whole-number magnitudes
Spectra(n) ==
    LET M == n \div 2
    IN { [k \in 1..M |-> 0],
         [k \in 1..M |-> 3],
         [k \in 1..M |-> k % 4],
         [k \in 1..M |-> IF k % 3 = 0 THEN 1 ELSE 0] }

\* int((i * len(magnitude)) / num_coeffs)
BandStart(i, M, K) == (i * M) \div K
\* mutant: every band is given the same width M // K
BandEndEqualWidth(i, M, K) == (i * M) \div K + M \div K

BandEnd(i, M, K) == ((i + 1) * M) \div K

\* magnitude[start:end] with 0-based, end-exclusive indices
Slice(magnitude, start, end) == SubSeq(magnitude, start + 1, end)

Coeff(magnitude, i, K) ==
    LET start == BandStart(i, Len(magnitude), K)
        end == BandEnd(i, Len(magnitude), K)
    IN IF end > start THEN Mean(Slice(magnitude, start, end)) ELSE R0

\* the list built by the loop over range(num_coeffs)
BandMeans(magnitude, K) == [j \in 1..K |-> Coeff(magnitude, j - 1, K)]

\* [0.0] * num_coeffs
ZeroCoeffs(K) == [j \in 1..K |-> R0]

\* np.fft.fft raises on an empty array; otherwise it may fail for a reason
\* of its own
FftOutcomes(n) ==
    IF n = 0 THEN {[raised |-> TRUE, magnitude |-> <<>>]}
    ELSE {[raised |-> TRUE, magnitude |-> <<>>]} \cup
         {[raised |-> FALSE, magnitude |-> m] : m \in Spectra(n)}

NoMfcc == [raised |-> FALSE, magnitude |-> <<>>, coeffs |-> <<>>]

(* --------------------------- extract_praat_features ------------------- *)

\* sound.duration: samples / sampling frequency, in seconds
Duration(n, sample_rate) == Rat(n, sample_rate)

\* len(np.arange(0, duration, TIME_STEP_S))
FrameCount(duration) ==
    LET q == RDiv(duration, TIME_STEP_S)
    IN (q.n + q.d - 1) \div q.d

\* what pitch.get_value_at_time returns for a frame: undefined, or a
\* frequency within the tracker's bounds
PitchValues == {NaN, PITCH_FLOOR_HZ, PITCH_CEILING_HZ}

\* what formant.get_value_at_time returns for formant 1 and formant 2
F1Values == {NaN, 500}
F2Values == {NaN, 1500}

\* "Get jitter (local)" and "Get shimmer (local)": a failure, or a fraction
PerturbationOutcomes ==
    {[raised |-> TRUE, value |-> R0],
     [raised |-> FALSE, value |-> Rat(1, 200)]}

DefaultPraat ==
    [f0_mean |-> R0, f0_range |-> R0, jitter |-> R0, shimmer |-> R0,
     f1 |-> R0, f2 |-> R0, speech_rate |-> R0]

\* the locals of extract_praat_features; raised names the call that threw
NoPraat ==
    [raised |-> "none", duration |-> R0, pitch |-> <<>>, f0_values |-> <<>>,
     f0_mean |-> R0, f0_range |-> R0, f1_mean |-> R0, f2_mean |-> R0,
     pulses_raised |-> FALSE, n_pulses |-> 0, jitter_raised |-> FALSE,
     shimmer_raised |-> FALSE, jitter |-> R0, shimmer |-> R0,
     speech_rate |-> R0]

\* mutant: unvoiced frames are not filtered out
AllFrameValues(contour) == contour

\* the voiced frames of a contour, in time order
VoicedValues(contour) == SelectPositive(contour)

F0Mean(f0_values) == IF Len(f0_values) > 0 THEN Mean(f0_values) ELSE R0

F0Range(f0_values) ==
    IF Len(f0_values) > 0 THEN RInt(MaxSeq(f0_values) - MinSeq(f0_values)) ELSE R0

\* mean of the positive values of one formant track, 0.0 if there are none
FormantMean(track) ==
    LET vals == SelectPositive(track)
    IN IF Len(vals) > 0 THEN Mean(vals) ELSE R0

\* float(jitter * 100.0)
Percent(fraction) == RMul(fraction, RInt(100))

\* the speech-rate estimate of lines 188-199
SpeechRate(f0_values, duration) ==
    IF Len(f0_values) > 0
    THEN LET voiced_frames == Len(f0_values)
             voiced_duration == RMul(RInt(voiced_frames), TIME_STEP_S)
             words_estimate == RDiv(voiced_duration, Rat(1, 2))
             rate == IF RLt(R0, duration)
                     THEN RMul(RDiv(words_estimate, duration), RInt(60))
                     ELSE R0
         IN PyMax(RInt(80), PyMin(RInt(200), rate))
    ELSE R0

\* pulses a PointProcess of that sound can hold
PulseCounts(duration) == IF duration = R0 THEN {0} ELSE 0..MaxPulses

PraatResult(p) ==
    [f0_mean |-> p.f0_mean, f0_range |-> p.f0_range, jitter |-> p.jitter,
     shimmer |-> p.shimmer, f1 |-> p.f1_mean, f2 |-> p.f2_mean,
     speech_rate |-> p.speech_rate]

(* ------------------------------ responses ----------------------------- *)

NoResponse == [status |-> 0, error |-> "", raised_in |-> "", body |-> <<>>]

ErrorResponse(status, error, stage) ==
    [status |-> status, error |-> error, raised_in |-> stage, body |-> <<>>]

FeatureRecord(b, m, p) ==
    [rms |-> b.rms, zcr |-> b.zcr, spectralCentroid |-> b.spectralCentroid,
     spectralFlatness |-> b.spectralFlatness, mfcc |-> m,
     f0_mean |-> p.f0_mean, f0_range |-> p.f0_range, jitter |-> p.jitter,
     shimmer |-> p.shimmer, f1 |-> p.f1, f2 |-> p.f2,
     speech_rate |-> p.speech_rate]

\* the "except Exception" of extract_features
ProcessingFailed(stage) == ErrorResponse(500, "Audio processing failed", stage)

DefaultNumCoeffs == 13

(* ------------------------------- actions ------------------------------ *)

Finish(resp) ==
    /\ response' = resp
    /\ pc' = "done"

\* a POST /extract_features arrives
Request ==
    /\ pc = "idle"
    /\ \E r \in Requests : request' = r
    /\ pc' = "check_field"
    /\ UNCHANGED <<wav, samples, basic, num_coeffs, mfcc, praat, praat_features, response>>

\* if "file" not in request.files
CheckFileField ==
    /\ pc = "check_field"
    /\ IF ~request.has_file
       THEN Finish(ErrorResponse(400, "file field missing", "check_field"))
       ELSE pc' = "check_ext" /\ UNCHANGED response
    /\ UNCHANGED <<request, wav, samples, basic, num_coeffs, mfcc, praat, praat_features>>

\* if file.filename == '' or not allowed_file(file.filename)
CheckExtension ==
    /\ pc = "check_ext"
    /\ IF request.filename = <<>> \/ ~allowed_file(request.filename)
       THEN Finish(ErrorResponse(400, "Invalid file type", "check_ext"))
       ELSE pc' = "check_size" /\ UNCHANGED response
    /\ UNCHANGED <<request, wav, samples, basic, num_coeffs, mfcc, praat, praat_features>>

\* if size > MAX_FILE_SIZE
CheckSize ==
    /\ pc = "check_size"
    /\ IF request.size > MAX_FILE_SIZE
       THEN Finish(ErrorResponse(413, "File too large", "check_size"))
       ELSE pc' = "read" /\ UNCHANGED response
    /\ UNCHANGED <<request, wav, samples, basic, num_coeffs, mfcc, praat, praat_features>>

\* data = file.read(); if not data
ReadData ==
    /\ pc = "read"
    /\ IF request.size = 0
       THEN Finish(ErrorResponse(400, "empty file", "read"))
       ELSE pc' = "decode" /\ UNCHANGED response
    /\ UNCHANGED <<request, wav, samples, basic, num_coeffs, mfcc, praat, praat_features>>

DecodeOutcomes ==
    {[raised |-> TRUE, wav |-> NoWav]} \cup
    {[raised |-> FALSE, wav |-> w] : w \in Wavs(FALSE, Rates)}

\* sample_rate, samples = wavfile.read(io.BytesIO(data))
Decode ==
    /\ pc = "decode"
    /\ \E out \in DecodeOutcomes :
         IF out.raised
         THEN Finish(ProcessingFailed("decode")) /\ UNCHANGED wav
         ELSE wav' = out.wav /\ pc' = "normalize" /\ UNCHANGED response
    /\ UNCHANGED <<request, samples, basic, num_coeffs, mfcc, praat, praat_features>>

\* the dtype chain of lines 317-330
Normalize ==
    /\ pc = "normalize"
    /\ IF NormalizeRaises(wav)
       THEN Finish(ProcessingFailed("normalize")) /\ UNCHANGED samples
       ELSE /\ samples' = Shape(wav, NormalizeFrames(wav))
            /\ pc' = "downmix"
            /\ UNCHANGED response
    /\ UNCHANGED <<request, wav, basic, num_coeffs, mfcc, praat, praat_features>>

\* if len(samples.shape) > 1: samples = samples.mean(axis=1)
Downmix ==
    /\ pc = "downmix"
    /\ samples' = IF samples.ndim > 1
                  THEN [ndim |-> 1, data |-> MeanAxis1(samples.data)]
                  ELSE samples
    /\ pc' = "basic"
    /\ UNCHANGED <<request, wav, basic, num_coeffs, mfcc, praat, praat_features, response>>

\* basic = compute_basic_features(samples, sample_rate); nothing inside it
\* catches, so a failure lands in the handler's except
ComputeBasic ==
    /\ pc = "basic"
    /\ IF CallsPeriodogram(samples.data)
       THEN \E out \in PeriodogramOutcomes(samples.data, wav.rate) :
              IF out = "raise"
              THEN Finish(ProcessingFailed("basic")) /\ UNCHANGED basic
              ELSE /\ basic' = BasicFeatures(samples.data, wav.rate)
                   /\ pc' = "mfcc"
                   /\ UNCHANGED response
       ELSE /\ basic' = BasicFeatures(samples.data, wav.rate)
            /\ pc' = "mfcc"
            /\ UNCHANGED response
    /\ UNCHANGED <<request, wav, samples, num_coeffs, mfcc, praat, praat_features>>

\* mfcc = compute_mfcc(samples, sample_rate, num_coeffs): the bare except
\* turns any failure into zeros
ComputeMfcc ==
    /\ pc = "mfcc"
    /\ \E out \in FftOutcomes(Len(samples.data)) :
         mfcc' = [raised |-> out.raised,
                  magnitude |-> out.magnitude,
                  coeffs |-> IF out.raised THEN ZeroCoeffs(num_coeffs)
                             ELSE BandMeans(out.magnitude, num_coeffs)]
    /\ pc' = "praat_sound"
    /\ UNCHANGED <<request, wav, samples, basic, num_coeffs, praat, praat_features, response>>

\* the "except Exception" of extract_praat_features: defaults for every field
PraatAbort(call) ==
    /\ praat' = [praat EXCEPT !.raised = call]
    /\ praat_features' = DefaultPraat
    /\ pc' = "respond"

\* sound = parselmouth.Sound(samples, sampling_frequency=sample_rate)
PraatSound ==
    /\ pc = "praat_sound"
    /\ \E ok \in (IF wav.rate = 0 THEN {FALSE} ELSE BOOLEAN) :
         IF ok
         THEN /\ praat' = [praat EXCEPT !.duration = Duration(Len(samples.data), wav.rate)]
              /\ pc' = "praat_pitch"
              /\ UNCHANGED praat_features
         ELSE PraatAbort("sound")
    /\ UNCHANGED <<request, wav, samples, basic, num_coeffs, mfcc, response>>

\* pitch = sound.to_pitch_ac(...) and the F0 statistics of lines 102-129
PraatPitch ==
    /\ pc = "praat_pitch"
    /\ \E ok \in BOOLEAN :
         IF ok
         THEN \E contour \in Tuples(PitchValues, FrameCount(praat.duration)) :
                LET f0_values == VoicedValues(contour)
                IN /\ praat' = [praat EXCEPT !.pitch = contour,
                                             !.f0_values = f0_values,
                                             !.f0_mean = F0Mean(f0_values),
                                             !.f0_range = F0Range(f0_values)]
                   /\ pc' = "praat_formant"
                   /\ UNCHANGED praat_features
         ELSE PraatAbort("pitch")
    /\ UNCHANGED <<request, wav, samples, basic, num_coeffs, mfcc, response>>

\* formant = sound.to_formant_burg(...) and the means of lines 138-155
PraatFormant ==
    /\ pc = "praat_formant"
    /\ \E ok \in BOOLEAN :
         IF ok
         THEN \E t1 \in Tuples(F1Values, FrameCount(praat.duration)),
                 t2 \in Tuples(F2Values, FrameCount(praat.duration)) :
                /\ praat' = [praat EXCEPT !.f1_mean = FormantMean(t1),
                                          !.f2_mean = FormantMean(t2)]
                /\ pc' = "praat_pulses"
                /\ UNCHANGED praat_features
         ELSE PraatAbort("formant")
    /\ UNCHANGED <<request, wav, samples, basic, num_coeffs, mfcc, response>>

\* mutant: a failing "To PointProcess" is left to the outer except
PraatPulsesAborting ==
    /\ pc = "praat_pulses"
    /\ \E created \in BOOLEAN, n \in PulseCounts(praat.duration),
          j \in PerturbationOutcomes, s \in PerturbationOutcomes :
         IF ~created
         THEN PraatAbort("pulses")
         ELSE /\ praat' = [praat EXCEPT !.n_pulses = n,
                                        !.jitter = IF n > 1 /\ ~j.raised THEN Percent(j.value) ELSE R0,
                                        !.shimmer = IF n > 1 /\ ~s.raised THEN Percent(s.value) ELSE R0]
              /\ pc' = "praat_rate"
              /\ UNCHANGED praat_features
    /\ UNCHANGED <<request, wav, samples, basic, num_coeffs, mfcc, response>>

\* the inner try of lines 157-186: pulses, jitter, shimmer
PraatPulses ==
    /\ pc = "praat_pulses"
    /\ \E created \in BOOLEAN, n \in PulseCounts(praat.duration),
          j \in PerturbationOutcomes, s \in PerturbationOutcomes :
         praat' =
            IF ~created
            THEN [praat EXCEPT !.pulses_raised = TRUE, !.jitter = R0, !.shimmer = R0]
            ELSE IF n > 1
            THEN [praat EXCEPT !.n_pulses = n,
                               !.jitter_raised = j.raised,
                               !.shimmer_raised = s.raised,
                               !.jitter = IF j.raised THEN R0 ELSE Percent(j.value),
                               !.shimmer = IF s.raised THEN R0 ELSE Percent(s.value)]
            ELSE [praat EXCEPT !.n_pulses = n]
    /\ pc' = "praat_rate"
    /\ UNCHANGED <<request, wav, samples, basic, num_coeffs, mfcc, praat_features, response>>

\* the speech-rate estimate and the return of lines 188-209
PraatReturn ==
    /\ pc = "praat_rate"
    /\ LET p == [praat EXCEPT !.speech_rate = SpeechRate(praat.f0_values, praat.duration)]
       IN /\ praat' = p
          /\ praat_features' = PraatResult(p)
    /\ pc' = "respond"
    /\ UNCHANGED <<request, wav, samples, basic, num_coeffs, mfcc, response>>

\* return jsonify({...})
Respond ==
    /\ pc = "respond"
    /\ response' = [status |-> 200, error |-> "", raised_in |-> "",
                    body |-> FeatureRecord(basic, mfcc.coeffs, praat_features)]
    /\ pc' = "done"
    /\ UNCHANGED <<request, wav, samples, basic, num_coeffs, mfcc, praat, praat_features>>

(* ---------------------------- specifications -------------------------- *)

Init ==
    /\ pc = "idle"
    /\ request = NoRequest
    /\ wav = NoWav
    /\ samples = NoSamples
    /\ basic = EmptyBasic
    /\ num_coeffs = DefaultNumCoeffs
    /\ mfcc = NoMfcc
    /\ praat = NoPraat
    /\ praat_features = DefaultPraat
    /\ response = NoResponse

Next ==
    \/ Request
    \/ CheckFileField
    \/ CheckExtension
    \/ CheckSize
    \/ ReadData
    \/ Decode
    \/ Normalize
    \/ Downmix
    \/ ComputeBasic
    \/ ComputeMfcc
    \/ PraatSound
    \/ PraatPitch
    \/ PraatFormant
    \/ PraatPulses
    \/ PraatReturn
    \/ Respond

Spec == Init /\ [][Next]_vars

\* the normalisation and downmix of every decodable signal, on their own
ValidRequest ==
    [has_file |-> TRUE, filename |-> <<"a", ".", "w", "a", "v">>, size |-> 46]

InitNorm ==
    /\ pc = "normalize"
    /\ request = ValidRequest
    /\ wav \in Wavs(TRUE, {100})
    /\ samples = NoSamples
    /\ basic = EmptyBasic
    /\ num_coeffs = DefaultNumCoeffs
    /\ mfcc = NoMfcc
    /\ praat = NoPraat
    /\ praat_features = DefaultPraat
    /\ response = NoResponse

NextNorm ==
    \/ Normalize
    \/ Downmix

SpecNorm == InitNorm /\ [][NextNorm]_vars

\* compute_mfcc on its own, for signals of 0..MaxFftLen samples and several
\* values of num_coeffs
SilentWav(n) ==
    [dtype |-> "float32", rate |-> 100, channels |-> 1,
     frames |-> [i \in 1..n |-> <<FZero>>]]

InitMfcc ==
    /\ pc = "mfcc"
    /\ request = ValidRequest
    /\ \E n \in 0..MaxFftLen :
         /\ wav = SilentWav(n)
         /\ samples = Shape(SilentWav(n), NormalizeFrames(SilentWav(n)))
         /\ basic = BasicFeatures(samples.data, 100)
    /\ num_coeffs \in (1..MaxCoeffs) \cup {DefaultNumCoeffs}
    /\ mfcc = NoMfcc
    /\ praat = NoPraat
    /\ praat_features = DefaultPraat
    /\ response = NoResponse

NextMfcc == ComputeMfcc

SpecMfcc == InitMfcc /\ [][NextMfcc]_vars

(* -------------------------------- claims ------------------------------ *)

FeatureFields ==
    {"rms", "zcr", "spectralCentroid", "spectralFlatness", "mfcc", "f0_mean",
     "f0_range", "jitter", "shimmer", "f1", "f2", "speech_rate"}

CheckStages == {"check_field", "check_ext", "check_size", "read"}

Finished == pc = "done"

\* decoding and bit-depth normalisation both succeeded
Decoded == wav # NoWav /\ samples # NoSamples

\* C1: every request whose decode and normalisation succeeded ends with a
\* complete twelve-field feature record and never with an error response,
\* whichever downstream stage fails.
C1_DecodedAlwaysYieldsRecord ==
    (Finished /\ Decoded) =>
        /\ response.status = 200
        /\ DOMAIN response.body = FeatureFields

\* extract_praat_features has returned
PraatReturned == pc = "respond" \/ (Finished /\ response.status = 200)

\* C2: when exactly one of pitch, formant or jitter/shimmer extraction fails,
\* the fields of the subcomponents that did not fail keep their computed
\* values in the record extract_praat_features returns.
C2_FailureStaysLocal ==
    PraatReturned =>
        /\ (praat.raised = "formant" =>
               /\ praat_features.f0_mean = praat.f0_mean
               /\ praat_features.f0_range = praat.f0_range)
        /\ ((praat.raised = "none" /\ praat.pulses_raised) =>
               /\ praat_features.f0_mean = praat.f0_mean
               /\ praat_features.f0_range = praat.f0_range
               /\ praat_features.f1 = praat.f1_mean
               /\ praat_features.f2 = praat.f2_mean)

ZeroFeatureRecord ==
    [rms |-> R0, zcr |-> R0, spectralCentroid |-> R0, spectralFlatness |-> R0,
     mfcc |-> [j \in 1..13 |-> R0],
     f0_mean |-> R0, f0_range |-> R0, jitter |-> R0, shimmer |-> R0,
     f1 |-> R0, f2 |-> R0, speech_rate |-> R0]

\* the feature stages were handed a signal of 0 samples
EmptySignal == samples.ndim = 1 /\ samples.data = <<>>

UnclampedRate(voiced, duration) == Rat(6 * voiced * duration.d, 5 * duration.n)

InRange80To200(r) == RLe(RInt(80), r) /\ RLe(r, RInt(200))

Clamp80To200(r) ==
    IF RLt(r, RInt(80)) THEN RInt(80) ELSE IF RLt(RInt(200), r) THEN RInt(200) ELSE r

\* C4: the speech_rate extract_praat_features returns is 0.0 when no frame is
\* voiced (or the duration is 0) and otherwise lies in [80, 200], being the
\* clamped (voicedFrames * 0.01 / 0.5) / duration * 60.
C4_SpeechRateZeroOrClamped ==
    PraatReturned =>
        LET voiced == Cardinality({i \in DOMAIN praat.pitch : Positive(praat.pitch[i])})
        IN IF voiced = 0 \/ praat.duration = R0
           THEN praat_features.speech_rate = R0
           ELSE /\ InRange80To200(praat_features.speech_rate)
                /\ praat_features.speech_rate =
                       Clamp80To200(UnclampedRate(voiced, praat.duration))

\* -1.0 <= v <= 1.0
InUnit(v) == IsFinite(v) /\ FAbsLe(v, FOne)

\* C5: after decoding and normalisation every sample handed to the feature
\* stages lies in [-1.0, 1.0], for every encoding and raw value.
C5_SamplesInUnitRange ==
    pc = "basic" => \A i \in 1..Len(samples.data) : InUnit(samples.data[i])

\* the mono file holding channel 1 of a multi-channel one
MonoOf(w) ==
    [w EXCEPT !.channels = 1, !.frames = [i \in 1..Len(w.frames) |-> <<w.frames[i][1]>>]]

IdenticalChannels(w) ==
    /\ w.channels = 2
    /\ \A i \in 1..Len(w.frames) : w.frames[i][1] = w.frames[i][2]

\* C6: a stereo input whose two channels both equal s yields, after
\* normalisation and downmix, the same mono signal as s decoded as mono.
C6_IdenticalStereoEqualsMono ==
    (pc = "basic" /\ IdenticalChannels(wav)) =>
        samples = Shape(MonoOf(wav), NormalizeFrames(MonoOf(wav)))

\* the file names of Filenames with extension wav or wave, any case
WavNames ==
    { <<"a", ".", "w", "a", "v">>,
      <<"b", ".", "m", "p", "3", ".", "W", "A", "V", "E">> }

\* the stage whose check rejects the request, "" when every check passes
RejectingStage(r) ==
    IF ~r.has_file THEN "check_field"
    ELSE IF r.filename \notin WavNames THEN "check_ext"
    ELSE IF r.size > 10485760 THEN "check_size"
    ELSE IF r.size = 0 THEN "read"
    ELSE ""

RejectionStatus(stage) == IF stage = "check_size" THEN 413 ELSE 400

ReachedDecoder ==
    \/ pc \in {"decode", "normalize", "downmix", "basic", "mfcc", "praat_sound",
               "praat_pitch", "praat_formant", "praat_pulses", "praat_rate", "respond"}
    \/ Finished /\ response.raised_in \notin CheckStages
    \/ wav # NoWav

\* C7: wavfile.read is reached only after the upload checks passed, in the
\* order file field (400), file name and extension (400), size at most
\* 10 MiB (413), non-empty buffer (400); a rejected request never reaches
\* decoding or feature extraction, and a request passing them all does.
C7_DecodeOnlyAfterChecks ==
    /\ ReachedDecoder => RejectingStage(request) = ""
    /\ Finished =>
          IF RejectingStage(request) # ""
          THEN /\ response.raised_in = RejectingStage(request)
               /\ response.status = RejectionStatus(RejectingStage(request))
               /\ wav = NoWav /\ samples = NoSamples /\ mfcc = NoMfcc /\ praat = NoPraat
          ELSE response.raised_in \notin CheckStages

C7_Witness ==
    /\ pc = "normalize"
    /\ request.size = MAX_FILE_SIZE
    /\ request.filename = <<"b", ".", "m", "p", "3", ".", "W", "A", "V", "E">>

\* the inner try of lines 162-186 has run
PulsesDone == (pc = "praat_rate" \/ PraatReturned) /\ praat.raised = "none"

\* C8: jitter and shimmer are 0.0 when the pulse train has fewer than 2
\* pulses or its creation fails; a failure of the jitter call alone zeroes
\* jitter only, of the shimmer call alone shimmer only; none of these aborts
\* the extraction.
C8_PerturbationDefaults ==
    /\ praat.raised \in {"none", "sound", "pitch", "formant"}
    /\ pc = "praat_rate" => praat.raised = "none"
    /\ PulsesDone =>
          /\ (praat.pulses_raised \/ praat.n_pulses < 2) =>
                praat.jitter = R0 /\ praat.shimmer = R0
          /\ praat.jitter_raised => praat.jitter = R0
          /\ praat.shimmer_raised => praat.shimmer = R0
          /\ (praat.jitter_raised /\ ~praat.shimmer_raised) => praat.shimmer # R0
          /\ (praat.shimmer_raised /\ ~praat.jitter_raised) => praat.jitter # R0
          /\ PraatReturned =>
                /\ praat_features.jitter = praat.jitter
                /\ praat_features.shimmer = praat.shimmer
                /\ praat_features.f0_mean = praat.f0_mean
                /\ praat_features.f0_range = praat.f0_range
                /\ praat_features.f1 = praat.f1_mean
                /\ praat_features.f2 = praat.f2_mean

C8_Witness ==
    /\ Finished
    /\ praat.raised = "none"
    /\ praat.jitter_raised /\ ~praat.shimmer_raised
    /\ response.status = 200
    /\ response.body.jitter = R0
    /\ response.body.shimmer # R0
    /\ response.body.f0_mean # R0
    /\ response.body.f1 # R0

\* floor(a / b) for a >= 0, b > 0
Floor(a, b) == CHOOSE q \in 0..a : q * b <= a /\ a < (q + 1) * b

\* 0-based index range [lo, hi) of band i
BandRange(i, M, K) == {k \in 0..(M - 1) : Floor(i * M, K) <= k /\ k < Floor((i + 1) * M, K)}

RECURSIVE SetSum(_, _)
SetSum(f, S) ==
    IF S = {} THEN 0
    ELSE LET x == CHOOSE y \in S : TRUE IN f[x] + SetSum(f, S \ {x})

MfccDone == pc = "praat_sound"

\* C9: compute_mfcc returns exactly K coefficients; the ranges
\* [floor(i*M/K), floor((i+1)*M/K)) are contiguous, pairwise disjoint and
\* cover 0..M-1; each coefficient is the mean magnitude of its range, 0.0
\* when the range is empty, which happens when M < K.
C9_BandsPartitionSpectrum ==
    MfccDone =>
        LET K == num_coeffs
            M == Len(mfcc.magnitude)
        IN /\ Len(mfcc.coeffs) = K
           /\ ~mfcc.raised =>
                /\ M = Len(samples.data) \div 2
                /\ \A k \in 0..(M - 1) :
                       Cardinality({i \in 0..(K - 1) : k \in BandRange(i, M, K)}) = 1
                /\ \A i \in 0..(K - 1) :
                       /\ BandStart(i, M, K) = Floor(i * M, K)
                       /\ BandEnd(i, M, K) = Floor((i + 1) * M, K)
                       /\ BandStart(i, M, K) <= BandEnd(i, M, K)
                       /\ i < K - 1 => BandEnd(i, M, K) = BandStart(i + 1, M, K)
                /\ Floor(0, K) = 0 /\ Floor(K * M, K) = M
                /\ \A i \in 0..(K - 1) :
                       LET R == BandRange(i, M, K)
                           c == mfcc.coeffs[i + 1]
                       IN IF R = {} THEN c = R0
                          ELSE c.n * Cardinality(R) =
                                   c.d * SetSum([k \in R |-> mfcc.magnitude[k + 1]], R)
                /\ M < K => \E i \in 0..(K - 1) :
                                BandRange(i, M, K) = {} /\ mfcc.coeffs[i + 1] = R0

C9_Witness ==
    /\ MfccDone
    /\ ~mfcc.raised
    /\ num_coeffs = 3
    /\ Len(mfcc.magnitude) = 7
    /\ \A j \in 1..3 : mfcc.coeffs[j] # R0
    /\ mfcc.coeffs[1] # mfcc.coeffs[3]

PitchDone ==
    \/ pc \in {"praat_formant", "praat_pulses", "praat_rate"}
    \/ PraatReturned /\ praat.raised \in {"none", "formant"}

VoicedFrames == {i \in DOMAIN praat.pitch : praat.pitch[i] # NaN /\ praat.pitch[i] > 0}

\* C10: the pitch aggregates are computed only over the frames whose F0 is
\* present and > 0: f0_mean is their mean, f0_range their max - min (>= 0),
\* both 0.0 when no frame is voiced; the voiced-frame count behind
\* speech_rate is the count of those frames.
C10_PitchAggregatesOverVoiced ==
    PitchDone =>
        LET V == VoicedFrames
            n == Cardinality(V)
        IN /\ Len(praat.f0_values) = n
           /\ Len(praat.pitch) = FrameCount(praat.duration)
           /\ RLe(R0, praat.f0_range)
           /\ IF n = 0
              THEN praat.f0_mean = R0 /\ praat.f0_range = R0
              ELSE /\ praat.f0_mean.n * n = praat.f0_mean.d * SetSum(praat.pitch, V)
                   /\ \E hi \in V, lo \in V :
                        /\ \A i \in V : praat.pitch[lo] <= praat.pitch[i]
                                        /\ praat.pitch[i] <= praat.pitch[hi]
                        /\ praat.f0_range = RInt(praat.pitch[hi] - praat.pitch[lo])
           /\ (PraatReturned /\ praat.raised = "none") =>
                /\ praat_features.f0_mean = praat.f0_mean
                /\ praat_features.f0_range = praat.f0_range
                /\ praat_features.speech_rate =
                      IF n = 0 THEN R0
                      ELSE Clamp80To200(UnclampedRate(n, praat.duration))

C10_Witness ==
    /\ pc = "praat_rate"
    /\ Len(praat.pitch) = 2
    /\ Cardinality(VoicedFrames) = 1
    /\ praat.f0_mean = RInt(600)
====
